---- MODULE Spec2Model ----
(***************************************************************************)
(* A model of src/brainfuck_interpreter.py: the BrainfuckInterpreter       *)
(* class, one fetch-execute iteration of execute() per step.               *)
(*                                                                         *)
(* Representation.  Positions (pointer, instruction_pointer, input_index)  *)
(* are 0-based as in the source; a Python list or string x is the TLA+     *)
(* sequence whose element i+1 is x[i].  A character of the program text is *)
(* a one-character string.  A character of the input or of the output is   *)
(* the record [char |-> n] of its code point n, so that a character and a  *)
(* cell value are different values and ord/chr are real conversions.       *)
(***************************************************************************)
EXTENDS Integers, Sequences, FiniteSets, TLC

VARIABLES
    memory,               \* self.memory
    pointer,              \* self.pointer
    instruction_pointer,  \* self.instruction_pointer
    output,               \* self.output
    input_buffer,         \* self.input_buffer
    input_index,          \* self.input_index
    code,                 \* execute's argument `code`
    filtered_code,        \* execute's local `filtered_code`
    status,               \* where the call stands: idle, running, returned, or the exception raised
    result,               \* <<>> while nothing was returned, <<text>> once execute returned text
    previous,             \* history: how the call before this one ended: "idle" (there was none), "returned" or "raised"
    ref                   \* a second interpreter, run in lockstep, that the first is compared with
                          \* (in SpecCounted: the count of the instructions the run has executed)

vars == <<memory, pointer, instruction_pointer, output, input_buffer, input_index,
          code, filtered_code, status, result, previous, ref>>

-----------------------------------------------------------------------------
(* Bounds of the model *)

\* longest program text drawn from the whole alphabet
MaxLen == 3
\* largest memory_size an interpreter is constructed with
MaxTape == 2
\* longest input text given to the echo program
MaxInput == 3
\* the output instruction is not taken beyond this many characters
MaxOutput == 13
\* longest program text of the calls made on a reused interpreter
MaxReuseLen == 2
\* longest program text drawn from the brackets and `+`
MaxBracketLen == 5
\* a tape long enough for the Hello World program, which moves no further
\* right than cell 6: the tape's length is read only by the edge test of `>`,
\* so a run that stays clear of the last cell takes the same steps on every
\* longer tape
HelloTape == 8

-----------------------------------------------------------------------------
(* Python values *)

\* the value of `return None` (positions are never negative)
None == -1

\* the default of __init__'s memory_size
DefaultTape == 30000

\* the largest code point chr() accepts, sys.maxunicode
MaxUnicode == 1114111

ord(c) == c.char

chr(i) == [char |-> i]

\* chr(i) raises ValueError outside range(0x110000)
ChrDefined(i) == 0 <= i /\ i <= MaxUnicode

\* [x] * n: n copies of x, none when n <= 0
Repeat(x, n) == [i \in 1..n |-> x]

\* x[i] is defined for -len(x) <= i < len(x); otherwise IndexError
IndexDefined(x, i) == -Len(x) <= i /\ i < Len(x)

\* the place in the sequence of the element x[i]
Index(x, i) == IF i < 0 THEN Len(x) + i + 1 ELSE i + 1

-----------------------------------------------------------------------------
(* The interpreter as a record of its fields and of execute's locals *)

\* the status values that are a RuntimeError raised by execute (the last one
\* without the position its message ends with)
TooHigh == "Memory pointer out of bounds (too high)"
TooLow == "Memory pointer out of bounds (too low)"
UnmatchedOpen == "Unmatched '[' bracket"
UnmatchedClose == "Unmatched ']' bracket"

construct(memory_size) ==
    [memory |-> Repeat(0, memory_size),
     pointer |-> 0,
     instruction_pointer |-> 0,
     output |-> <<>>,
     input_buffer |-> <<>>,
     input_index |-> 0,
     code |-> <<>>,
     filtered_code |-> <<>>,
     status |-> "idle",
     result |-> <<>>]

set_input(s, input_string) ==
    [s EXCEPT !.input_buffer = input_string, !.input_index = 0]

valid_commands == {">", "<", "+", "-", ".", ",", "[", "]"}

\* FilterCode that stops at the first character that is no command
RECURSIVE FilterCodeUntilComment(_)
FilterCodeUntilComment(text) ==
    IF text = <<>> \/ Head(text) \notin valid_commands THEN <<>>
    ELSE <<Head(text)>> \o FilterCodeUntilComment(Tail(text))

\* FilterCode that keeps the commands in reverse order
RECURSIVE FilterCodeReversed(_)
FilterCodeReversed(text) ==
    IF text = <<>> THEN <<>>
    ELSE FilterCodeReversed(Tail(text))
             \o (IF Head(text) \in valid_commands THEN <<Head(text)>> ELSE <<>>)

FilterCode(text) == SelectSeq(text, LAMBDA c : c \in valid_commands)

\* the while loop of find_matching_bracket, from position pos with the count so far
RECURSIVE ScanBrackets(_, _, _, _)
ScanBrackets(text, pos, direction, bracket_count) ==
    LET open_bracket == IF direction = 1 THEN "[" ELSE "]"
        close_bracket == IF direction = 1 THEN "]" ELSE "["
    IN  IF ~(0 <= pos /\ pos < Len(text)) THEN None
        ELSE IF text[pos + 1] = open_bracket
             THEN ScanBrackets(text, pos + direction, direction, bracket_count + 1)
        ELSE IF text[pos + 1] = close_bracket
             THEN IF bracket_count - 1 = 0 THEN pos
                  ELSE ScanBrackets(text, pos + direction, direction, bracket_count - 1)
        ELSE ScanBrackets(text, pos + direction, direction, bracket_count)

\* find_matching_bracket with bracket_count starting at 0
FindMatchingBracketFromZero(text, start_pos, direction) ==
    ScanBrackets(text, start_pos, direction, 0)

\* find_matching_bracket that stops at the first closing bracket it meets
RECURSIVE FindNearestBracket(_, _, _)
FindNearestBracket(text, start_pos, direction) ==
    IF ~(0 <= start_pos /\ start_pos < Len(text)) THEN None
    ELSE IF text[start_pos + 1] = (IF direction = 1 THEN "]" ELSE "[") THEN start_pos
    ELSE FindNearestBracket(text, start_pos + direction, direction)

find_matching_bracket(text, start_pos, direction) ==
    ScanBrackets(text, start_pos, direction, 1)

\* ResetState without `self.pointer = 0`
ResetStateKeepsPointer(s, text, input_string) ==
    [set_input([s EXCEPT !.memory = Repeat(0, Len(s.memory)),
                         !.instruction_pointer = 0,
                         !.output = <<>>],
               input_string)
     EXCEPT !.code = text,
            !.filtered_code = FilterCode(text),
            !.status = "running",
            !.result = <<>>]

\* execute, up to its loop: the reset of the interpreter and the filtering of the text
ResetState(s, text, input_string) ==
    [set_input([s EXCEPT !.memory = Repeat(0, Len(s.memory)),
                         !.pointer = 0,
                         !.instruction_pointer = 0,
                         !.output = <<>>],
               input_string)
     EXCEPT !.code = text,
            !.filtered_code = FilterCode(text),
            !.status = "running",
            !.result = <<>>]

\* `raise`: the call ends with the exception, the interpreter stays as it is
\* Raise that hands back the text written so far
RaiseReturnsOutput(s, exception) ==
    [s EXCEPT !.status = exception, !.result = <<s.output>>]

Raise(s, exception) == [s EXCEPT !.status = exception]

\* self.instruction_pointer += 1, the last statement of the loop body
Advance(s) == [s EXCEPT !.instruction_pointer = @ + 1]

HasCell(s) == IndexDefined(s.memory, s.pointer)

\* self.memory[self.pointer], where it is defined
Cell(s) == s.memory[Index(s.memory, s.pointer)]

\* self.memory[self.pointer] = v
Store(s, v) == [s EXCEPT !.memory[Index(s.memory, s.pointer)] = v]

\* command = filtered_code[self.instruction_pointer]
Command(s) == s.filtered_code[s.instruction_pointer + 1]

\* CmdRight without the bounds check
CmdRightUnchecked(s) == Advance([s EXCEPT !.pointer = @ + 1])

CmdRight(s) ==
    LET t == [s EXCEPT !.pointer = @ + 1]
    IN  IF t.pointer >= Len(t.memory) THEN Raise(t, TooHigh) ELSE Advance(t)

\* CmdLeft that stays on cell 0
CmdLeftClamped(s) ==
    IF s.pointer = 0 THEN Advance(s) ELSE Advance([s EXCEPT !.pointer = @ - 1])

CmdLeft(s) ==
    LET t == [s EXCEPT !.pointer = @ - 1]
    IN  IF t.pointer < 0 THEN Raise(t, TooLow) ELSE Advance(t)

\* CmdInc that wraps after 254
CmdIncMod255(s) ==
    IF ~HasCell(s) THEN Raise(s, "IndexError")
    ELSE Advance(Store(s, (Cell(s) + 1) % 255))

CmdInc(s) ==
    IF ~HasCell(s) THEN Raise(s, "IndexError")
    ELSE Advance(Store(s, (Cell(s) + 1) % 256))

CmdDec(s) ==
    IF ~HasCell(s) THEN Raise(s, "IndexError")
    ELSE Advance(Store(s, (Cell(s) - 1) % 256))

\* CmdOutput that writes the cell's value reduced to a byte
CmdOutputByte(s) ==
    IF ~HasCell(s) THEN Raise(s, "IndexError")
    ELSE Advance([s EXCEPT !.output = Append(@, chr(Cell(s) % 256))])

CmdOutput(s) ==
    IF ~HasCell(s) THEN Raise(s, "IndexError")
    ELSE IF ~ChrDefined(Cell(s)) THEN Raise(s, "ValueError")
    ELSE Advance([s EXCEPT !.output = Append(@, chr(Cell(s)))])

\* CmdInput that stores the code point reduced to a byte
CmdInputByte(s) ==
    IF s.input_index < Len(s.input_buffer)
    THEN IF ~HasCell(s) THEN Raise(s, "IndexError")
         ELSE Advance([Store(s, ord(s.input_buffer[s.input_index + 1]) % 256)
                       EXCEPT !.input_index = @ + 1])
    ELSE IF ~HasCell(s) THEN Raise(s, "IndexError")
         ELSE Advance(Store(s, 0))

\* CmdInput that waits at the end of the input
CmdInputWaits(s) ==
    IF s.input_index < Len(s.input_buffer)
    THEN IF ~HasCell(s) THEN Raise(s, "IndexError")
         ELSE Advance([Store(s, ord(s.input_buffer[s.input_index + 1]))
                       EXCEPT !.input_index = @ + 1])
    ELSE s

CmdInput(s) ==
    IF s.input_index < Len(s.input_buffer)
    THEN IF ~HasCell(s) THEN Raise(s, "IndexError")
         ELSE Advance([Store(s, ord(s.input_buffer[s.input_index + 1]))
                       EXCEPT !.input_index = @ + 1])
    ELSE IF ~HasCell(s) THEN Raise(s, "IndexError")
         ELSE Advance(Store(s, 0))

\* CmdLoopOpen that looks for the matching bracket before it tests the cell
CmdLoopOpenChecked(s) ==
    IF ~HasCell(s) THEN Raise(s, "IndexError")
    ELSE LET matching_bracket ==
                 find_matching_bracket(s.filtered_code, s.instruction_pointer + 1, 1)
         IN  IF matching_bracket = None THEN Raise(s, UnmatchedOpen)
             ELSE IF Cell(s) = 0
                  THEN Advance([s EXCEPT !.instruction_pointer = matching_bracket])
                  ELSE Advance(s)

\* CmdLoopOpen that skips the loop whatever the cell holds
CmdLoopOpenSkips(s) ==
    IF ~HasCell(s) THEN Raise(s, "IndexError")
    ELSE LET matching_bracket ==
                 find_matching_bracket(s.filtered_code, s.instruction_pointer + 1, 1)
         IN  IF matching_bracket = None THEN Raise(s, UnmatchedOpen)
             ELSE Advance([s EXCEPT !.instruction_pointer = matching_bracket])

CmdLoopOpen(s) ==
    IF ~HasCell(s) THEN Raise(s, "IndexError")
    ELSE IF Cell(s) = 0
    THEN LET matching_bracket ==
                 find_matching_bracket(s.filtered_code, s.instruction_pointer + 1, 1)
         IN  IF matching_bracket = None THEN Raise(s, UnmatchedOpen)
             ELSE Advance([s EXCEPT !.instruction_pointer = matching_bracket])
    ELSE Advance(s)

\* CmdLoopClose that goes on when there is no matching bracket
CmdLoopCloseUnchecked(s) ==
    IF ~HasCell(s) THEN Raise(s, "IndexError")
    ELSE IF Cell(s) # 0
    THEN LET matching_bracket ==
                 find_matching_bracket(s.filtered_code, s.instruction_pointer - 1, -1)
         IN  IF matching_bracket = None THEN Advance(s)
             ELSE Advance([s EXCEPT !.instruction_pointer = matching_bracket])
    ELSE Advance(s)

\* CmdLoopClose that jumps onto the matching bracket, not past it
CmdLoopCloseOntoBracket(s) ==
    IF ~HasCell(s) THEN Raise(s, "IndexError")
    ELSE IF Cell(s) # 0
    THEN LET matching_bracket ==
                 find_matching_bracket(s.filtered_code, s.instruction_pointer - 1, -1)
         IN  IF matching_bracket = None THEN Raise(s, UnmatchedClose)
             ELSE [s EXCEPT !.instruction_pointer = matching_bracket]
    ELSE Advance(s)

CmdLoopClose(s) ==
    IF ~HasCell(s) THEN Raise(s, "IndexError")
    ELSE IF Cell(s) # 0
    THEN LET matching_bracket ==
                 find_matching_bracket(s.filtered_code, s.instruction_pointer - 1, -1)
         IN  IF matching_bracket = None THEN Raise(s, UnmatchedClose)
             ELSE Advance([s EXCEPT !.instruction_pointer = matching_bracket])
    ELSE Advance(s)

\* the loop condition fails: return ''.join(self.output)
Finish(s) == [s EXCEPT !.status = "returned", !.result = <<s.output>>]

AtEnd(s) == ~(s.instruction_pointer < Len(s.filtered_code))

\* one iteration of the loop of execute, or its return
Step(s) ==
    IF s.status # "running" THEN s
    ELSE IF AtEnd(s) THEN Finish(s)
    ELSE CASE Command(s) = ">" -> CmdRight(s)
           [] Command(s) = "<" -> CmdLeft(s)
           [] Command(s) = "+" -> CmdInc(s)
           [] Command(s) = "-" -> CmdDec(s)
           [] Command(s) = "." -> CmdOutput(s)
           [] Command(s) = "," -> CmdInput(s)
           [] Command(s) = "[" -> CmdLoopOpen(s)
           [] Command(s) = "]" -> CmdLoopClose(s)
           [] OTHER -> Advance(s)

-----------------------------------------------------------------------------
(* The engine with a jump table *)

\* the table built in one pass over the text with a stack of the open brackets
\* not yet closed: each pair of brackets is entered in both directions, a
\* bracket without a partner gets no entry
RECURSIVE BuildJumpTable(_, _, _, _)
BuildJumpTable(text, pos, stack, table) ==
    IF pos >= Len(text) THEN table
    ELSE IF text[pos + 1] = "["
         THEN BuildJumpTable(text, pos + 1, <<pos>> \o stack, table)
    ELSE IF text[pos + 1] = "]" /\ stack # <<>>
         THEN BuildJumpTable(text, pos + 1, Tail(stack),
                             (Head(stack) :> pos) @@ (pos :> Head(stack)) @@ table)
    ELSE BuildJumpTable(text, pos + 1, stack, table)

\* the table of a loaded instruction sequence; the sequence does not change
\* during a run, so this is the table computed at loading
JumpTable(text) == BuildJumpTable(text, 0, <<>>, <<>>)

\* a taken jump of the instruction at s.instruction_pointer, looked up in the table
TableJump(s, exception) ==
    IF s.instruction_pointer \in DOMAIN JumpTable(s.filtered_code)
    THEN Advance([s EXCEPT !.instruction_pointer =
                               JumpTable(s.filtered_code)[s.instruction_pointer]])
    ELSE Raise(s, exception)

TableLoopOpen(s) ==
    IF ~HasCell(s) THEN Raise(s, "IndexError")
    ELSE IF Cell(s) = 0 THEN TableJump(s, UnmatchedOpen)
    ELSE Advance(s)

TableLoopClose(s) ==
    IF ~HasCell(s) THEN Raise(s, "IndexError")
    ELSE IF Cell(s) # 0 THEN TableJump(s, UnmatchedClose)
    ELSE Advance(s)

\* one iteration of the loop of the engine with the table, or its return
StepTable(s) ==
    IF s.status # "running" THEN s
    ELSE IF AtEnd(s) THEN Finish(s)
    ELSE CASE Command(s) = "[" -> TableLoopOpen(s)
           [] Command(s) = "]" -> TableLoopClose(s)
           [] OTHER -> Step(s)

-----------------------------------------------------------------------------
(* The interpreter of the variables *)

self ==
    [memory |-> memory,
     pointer |-> pointer,
     instruction_pointer |-> instruction_pointer,
     output |-> output,
     input_buffer |-> input_buffer,
     input_index |-> input_index,
     code |-> code,
     filtered_code |-> filtered_code,
     status |-> status,
     result |-> result]

Becomes(s) ==
    /\ memory' = s.memory
    /\ pointer' = s.pointer
    /\ instruction_pointer' = s.instruction_pointer
    /\ output' = s.output
    /\ input_buffer' = s.input_buffer
    /\ input_index' = s.input_index
    /\ code' = s.code
    /\ filtered_code' = s.filtered_code
    /\ status' = s.status
    /\ result' = s.result

\* the loop of execute is at an instruction, and the instruction is c
Fetch(c) ==
    /\ status = "running"
    /\ instruction_pointer < Len(filtered_code)
    /\ filtered_code[instruction_pointer + 1] = c

-----------------------------------------------------------------------------
(* The calls the model makes *)

Str(n, c) == [i \in 1..n |-> c]

\* a character outside the alphabet stands for every comment character
SourceChars == valid_commands \cup {"x"}

\* the texts of at most n characters drawn from chars
Texts(chars, n) == UNION {[1..k -> chars] : k \in 0..n}

Sources(n) == Texts(SourceChars, n)

GenericInputs ==
    {<<>>, <<chr(97)>>, <<chr(0), chr(98)>>, <<chr(256), chr(97)>>}

\* the cat program of main's usage text
Echo == <<",", "[", ".", ",", "]">>

EchoInputs == Texts({chr(0), chr(97), chr(98), chr(99), chr(256), chr(MaxUnicode)}, MaxInput)

\* the Hello World program of main's usage text
HelloWorld ==
    <<"+", "+", "+", "+", "+", "+", "+", "+", "[", ">", "+", "+", "+", "+", "[", ">", "+",
       "+", ">", "+", "+", "+", ">", "+", "+", "+", ">", "+", "<", "<", "<", "<", "-", "]",
       ">", "+", ">", "+", ">", "-", ">", ">", "+", "[", "<", "]", "<", "-", "]", ">", ">",
       ".", ">", "-", "-", "-", ".", "+", "+", "+", "+", "+", "+", "+", ".", ".", "+", "+",
       "+", ".", ">", ">", ".", "<", "-", ".", "<", ".", "+", "+", "+", ".", "-", "-", "-",
       "-", "-", "-", ".", "-", "-", "-", "-", "-", "-", "-", "-", ".", ">", ">", "+", ".">>

\* read a character, then increment the cell 256 times
Wrap == <<",">> \o Str(256, "+")

\* read a character, then clear the cell in a loop nested to depth 3
Nested == <<",", "[", "[", "[", "-", "]", "]", "]">>

NestedPlus(v) == Str(v, "+") \o SubSeq(Nested, 2, Len(Nested))

ByteInputs == {<<chr(v)>> : v \in 0..255}

\* programs of nested, matched and unmatched loops
BracketTexts == Texts({"+", "[", "]"}, MaxBracketLen)

Calls ==
    (Sources(MaxLen) \X GenericInputs)
    \cup (BracketTexts \X {<<>>})
    \cup ({Echo} \X EchoInputs)
    \cup ({Wrap} \X ByteInputs)
    \cup ({Nested} \X ByteInputs)
    \cup ({NestedPlus(v) : v \in {1, 2, 255}} \X {<<>>})
    \cup ({HelloWorld} \X {<<>>})

\* the calls made on an interpreter of the default size
DefaultCalls == {HelloWorld} \X {<<>>}

ReuseCalls ==
    Texts(valid_commands, MaxReuseLen) \X {<<>>, <<chr(97), chr(98)>>}

\* the cat program with comment characters around and between its instructions
CommentedEcho == <<"x", ",", "[", "x", "x", ".", ",", "]", "x">>

CommentedCalls ==
    (Sources(MaxLen) \X GenericInputs) \cup ({CommentedEcho} \X EchoInputs)

\* the 8-symbol alphabet of the language
Alphabet == {">", "<", "+", "-", ".", ",", "[", "]"}

\* a program text with every character outside the alphabet removed
RECURSIVE Stripped(_)
Stripped(text) ==
    IF text = <<>> THEN <<>>
    ELSE IF Head(text) \in Alphabet THEN <<Head(text)>> \o Stripped(Tail(text))
    ELSE Stripped(Tail(text))

-----------------------------------------------------------------------------
(* Actions *)

\* BrainfuckInterpreter(memory_size)
Constructed(memory_size) ==
    /\ memory = construct(memory_size).memory
    /\ pointer = construct(memory_size).pointer
    /\ instruction_pointer = construct(memory_size).instruction_pointer
    /\ output = construct(memory_size).output
    /\ input_buffer = construct(memory_size).input_buffer
    /\ input_index = construct(memory_size).input_index
    /\ code = construct(memory_size).code
    /\ filtered_code = construct(memory_size).filtered_code
    /\ status = construct(memory_size).status
    /\ result = construct(memory_size).result
    /\ previous = "idle"
    /\ ref = construct(memory_size)

\* the sizes of the interpreters that run the Hello World program: the default
\* size, as main constructs it, and a short one
HelloTapes == {HelloTape, DefaultTape}

\* an interpreter of a small size, or one that will run the Hello World program
Init == \E memory_size \in (0..MaxTape) \cup HelloTapes : Constructed(memory_size)

\* an interpreter of a small size
InitSmall == \E memory_size \in 0..MaxTape : Constructed(memory_size)

\* execute(text, input_string) is entered
Begin(text, input_string) ==
    /\ Becomes(ResetState(self, text, input_string))
    /\ previous' = IF status \in {"idle", "returned"} THEN status ELSE "raised"

\* main: one call on the interpreter it constructed
Execute ==
    /\ status = "idle"
    /\ \E call \in (IF Len(memory) \in HelloTapes THEN DefaultCalls ELSE Calls) :
           Begin(call[1], call[2])
    /\ UNCHANGED ref

\* a call on an interpreter that may have been used before (execute is not
\* re-entered while it runs), while ref is a freshly constructed interpreter of
\* the same size entering the same call
ExecuteReused ==
    /\ status # "running"
    /\ \E call \in ReuseCalls :
           /\ Begin(call[1], call[2])
           /\ ref' = ResetState(construct(Len(ref.memory)), call[1], call[2])

\* a call on a constructed interpreter, while ref, a second interpreter of the
\* same size, enters the call with the comment characters of the text removed
ExecuteCommented ==
    /\ status = "idle"
    /\ \E call \in CommentedCalls :
           /\ Begin(call[1], call[2])
           /\ ref' = ResetState(ref, Stripped(call[1]), call[2])

\* a call on a constructed interpreter, while ref, a second interpreter of the
\* same size, enters the same call
ExecuteBoth ==
    /\ status = "idle"
    /\ \E call \in (IF Len(memory) \in HelloTapes THEN DefaultCalls ELSE Calls) :
           /\ Begin(call[1], call[2])
           /\ ref' = ResetState(ref, call[1], call[2])

\* a call on a constructed interpreter, while ref starts to count its instructions
ExecuteCounted ==
    /\ status = "idle"
    /\ \E call \in (IF Len(memory) \in HelloTapes THEN DefaultCalls ELSE Calls) :
           Begin(call[1], call[2])
    /\ ref' = [steps |-> 0, jumped |-> FALSE]

Right == Fetch(">") /\ Becomes(CmdRight(self)) /\ ref' = Step(ref) /\ UNCHANGED previous

Left == Fetch("<") /\ Becomes(CmdLeft(self)) /\ ref' = Step(ref) /\ UNCHANGED previous

Inc == Fetch("+") /\ Becomes(CmdInc(self)) /\ ref' = Step(ref) /\ UNCHANGED previous

Dec == Fetch("-") /\ Becomes(CmdDec(self)) /\ ref' = Step(ref) /\ UNCHANGED previous

Output ==
    /\ Fetch(".")
    /\ Len(output) < MaxOutput
    /\ Becomes(CmdOutput(self))
    /\ ref' = Step(ref) /\ UNCHANGED previous

Input == Fetch(",") /\ Becomes(CmdInput(self)) /\ ref' = Step(ref) /\ UNCHANGED previous

LoopOpen == Fetch("[") /\ Becomes(CmdLoopOpen(self)) /\ ref' = Step(ref) /\ UNCHANGED previous

LoopClose == Fetch("]") /\ Becomes(CmdLoopClose(self)) /\ ref' = Step(ref) /\ UNCHANGED previous

Return ==
    /\ status = "running"
    /\ AtEnd(self)
    /\ Becomes(Finish(self))
    /\ ref' = Step(ref) /\ UNCHANGED previous

\* one iteration of the loop of execute, or its return
Run ==
    \/ Right
    \/ Left
    \/ Inc
    \/ Dec
    \/ Output
    \/ Input
    \/ LoopOpen
    \/ LoopClose
    \/ Return

\* one iteration of the loop of execute, or its return, while ref takes its step
\* with the jump table
RunBesideTable ==
    /\ status = "running"
    /\ Fetch(".") => Len(output) < MaxOutput
    /\ Becomes(Step(self))
    /\ ref' = StepTable(ref)
    /\ UNCHANGED previous

\* the instruction at hand is a `]` on a cell that does not hold 0
TakenLoopClose == Fetch("]") /\ HasCell(self) /\ Cell(self) # 0

\* one iteration of the loop of execute, or its return, while ref counts the
\* instructions executed up to the first `]` that jumps back
RunCounted ==
    /\ status = "running"
    /\ Fetch(".") => Len(output) < MaxOutput
    /\ Becomes(Step(self))
    /\ ref' = [steps |-> IF AtEnd(self) \/ ref.jumped \/ TakenLoopClose
                         THEN ref.steps ELSE ref.steps + 1,
               jumped |-> ref.jumped \/ TakenLoopClose]
    /\ UNCHANGED previous

Next == Execute \/ Run

NextTable == ExecuteBoth \/ RunBesideTable

NextCounted == ExecuteCounted \/ RunCounted

NextReused == ExecuteReused \/ Run

NextCommented == ExecuteCommented \/ Run

Spec == Init /\ [][Next]_vars

SpecReused == InitSmall /\ [][NextReused]_vars

SpecCommented == InitSmall /\ [][NextCommented]_vars

SpecTable == Init /\ [][NextTable]_vars

SpecCounted == Init /\ [][NextCounted]_vars

\* a call that was entered goes on to its next iteration: one thread, nothing to wait for
FairSpec == Spec /\ WF_vars(Run)

-----------------------------------------------------------------------------
(* Properties *)

\* the statuses of a call that has not ended with an exception
NotFaulted == {"running", "returned"}

\* C1: on a tape of size >= 1, in every state of a run that has not faulted
\* 0 <= pointer < tape size; `>` executed on the last cell ends the run with
\* the too-high fault and `<` executed on cell 0 ends it with the too-low
\* fault, the pointer having moved off the tape (it is not clamped or wrapped).
C1_PointerStaysOnTape ==
    /\ [](status \in NotFaulted /\ Len(memory) >= 1
            => 0 <= pointer /\ pointer < Len(memory))
    /\ [][Fetch(">") /\ Len(memory) >= 1 /\ pointer = Len(memory) - 1
            => status' = TooHigh /\ pointer' = Len(memory)]_vars
    /\ [][Fetch("<") /\ Len(memory) >= 1 /\ pointer = 0
            => status' = TooLow /\ pointer' = -1]_vars

\* C1 witness: `+>` on a tape of size 1 has faulted with too-high
C1_Witness ==
    /\ code = <<"+", ">">>
    /\ memory = <<1>>
    /\ pointer = 1
    /\ status = TooHigh

\* C2: every cell of the tape holds a value in [0,255] in every reachable state
C2_CellsAreBytes == \A i \in 1..Len(memory) : memory[i] \in 0..255

\* the number of places a..b of text that hold c
Count(text, c, a, b) == Cardinality({i \in a..b : text[i] = c})

\* the `]` at position p of text has a matching `[` before it: going left from p,
\* some stretch holds one `[` more than it holds `]`
HasOpenBefore(text, p) ==
    \E j \in 1..p : Count(text, "[", j, p) = Count(text, "]", j, p) + 1

\* C3 as stated: a `]` that is executed (its cell exists) and has no matching
\* `[` before it ends the run with the unmatched-bracket fault
C3_UnmatchedCloseFaults ==
    [][Fetch("]") /\ HasCell(self) /\ ~HasOpenBefore(filtered_code, instruction_pointer)
        => status' = UnmatchedClose]_vars

\* C3 amended: a `]` with no matching `[` before it, executed while the current
\* cell is nonzero, ends the run with the unmatched-bracket fault; executed
\* while the current cell is 0 a `]` falls through without a fault, so the
\* program `]` alone on a zero tape of size >= 1 does not fault
C3_UnmatchedCloseFaultsWhenTaken ==
    /\ [][Fetch("]") /\ HasCell(self) /\ Cell(self) # 0
            /\ ~HasOpenBefore(filtered_code, instruction_pointer)
            => status' = UnmatchedClose]_vars
    /\ [][Fetch("]") /\ HasCell(self) /\ Cell(self) = 0
            => status' = "running" /\ instruction_pointer' = instruction_pointer + 1]_vars
    /\ [](code = <<"]">> /\ Len(memory) >= 1 /\ status # "running"
            => status = "returned" /\ result = <<<<>>>>)

\* C3 witness: a run has ended with the unmatched-`]` fault on a nonzero cell
C3_Witness ==
    /\ status = UnmatchedClose
    /\ HasCell(self)
    /\ Cell(self) # 0
    /\ ~HasOpenBefore(filtered_code, instruction_pointer)

\* C4: on an interpreter that may have run any calls before, faulted ones
\* included, a call goes step for step as the same call on a freshly
\* constructed interpreter of the same tape size and ends as it does (same
\* text returned, or same fault); and every call starts with the tape all zero
\* and of unchanged length, data pointer 0, instruction pointer 0, empty output
\* and input cursor 0.
C4_RunsAreIndependent ==
    /\ [](/\ status = ref.status
          /\ result = ref.result
          /\ output = ref.output
          /\ Len(memory) = Len(ref.memory))
    /\ [][status # "running" /\ status' = "running"
            => /\ memory' = Repeat(0, Len(memory))
               /\ pointer' = 0
               /\ instruction_pointer' = 0
               /\ output' = <<>>
               /\ input_index' = 0]_vars

\* C4 witness: a call made after a call that faulted has returned a text
C4_Witness ==
    /\ previous = "raised"
    /\ status = "returned"
    /\ code = <<",", ".">>
    /\ result = <<<<chr(97)>>>>

\* C5: a run ends only by returning its output, by the out-of-bounds pointer
\* fault or by the unmatched-bracket fault, whatever the tape size >= 0
C5_OnlyThreeEndings ==
    status \in {"idle", "running", "returned", TooHigh, TooLow, UnmatchedOpen, UnmatchedClose}

\* C6: executing a text goes step for step as executing the text with every
\* character outside the alphabet removed and ends as it does; a text with no
\* character of the alphabet executes no instruction and returns the empty text
C6_CommentsNeverMatter ==
    /\ [](/\ status = ref.status
          /\ result = ref.result
          /\ output = ref.output
          /\ memory = ref.memory
          /\ pointer = ref.pointer
          /\ input_index = ref.input_index)
    /\ [][status = "running" /\ Stripped(code) = <<>>
            => status' = "returned" /\ result' = <<<<>>>>]_vars

\* C6 witness: a text with comment characters among its instructions has
\* returned the text it read
C6_Witness ==
    /\ code = CommentedEcho
    /\ input_buffer = <<chr(97), chr(98), chr(99)>>
    /\ status = "returned"
    /\ result = <<input_buffer>>

\* C7: `,` never faults; with the cursor before the end of the input it stores
\* the code point of input[cursor] in the current cell and advances the cursor
\* by one, with the cursor at the end it stores 0 and leaves the cursor; the
\* cursor stays in [0, length(input)] and never decreases during a run
C7_InputNeverFaults ==
    /\ [][Fetch(",")
            => /\ status' = "running"
               /\ pointer' = pointer
               /\ IF input_index < Len(input_buffer)
                  THEN /\ memory'[pointer + 1] = ord(input_buffer[input_index + 1])
                       /\ input_index' = input_index + 1
                  ELSE /\ memory'[pointer + 1] = 0
                       /\ input_index' = input_index]_vars
    /\ [](0 <= input_index /\ input_index <= Len(input_buffer))
    /\ [][status = "running" => input_index' >= input_index]_vars

\* a run of Wrap, on a tape of size >= 1, that has read v and incremented n times
Incremented(n) ==
    /\ filtered_code = Wrap
    /\ Len(memory) >= 1
    /\ Len(input_buffer) = 1
    /\ status = "running"
    /\ instruction_pointer = 1 + n

\* C8 as stated: 255 increments of a cell starting from v return it to v
C8_Wraps255 == Incremented(255) => Cell(self) = ord(input_buffer[1])

\* C8 amended: 256 increments of a cell starting from v in [0,255] return it to
\* v (255 increments leave it at (v - 1) mod 256)
C8_Wraps256 ==
    /\ Incremented(256) => Cell(self) = ord(input_buffer[1])
    /\ Incremented(255) => Cell(self) = (ord(input_buffer[1]) - 1) % 256

\* C8 witness: the cell that started from 200 has been incremented 256 times
C8_Witness == Incremented(256) /\ input_buffer = <<chr(200)>> /\ memory[1] = 200

\* a run of the echo program, on a tape of size >= 1, on an input without the
\* character of code point 0
EchoRun ==
    /\ code = Echo
    /\ Len(memory) >= 1
    /\ \A i \in 1..Len(input_buffer) : ord(input_buffer[i]) # 0
    /\ status # "idle"

\* C9: the echo program, on a tape of size >= 1 and an input without code point
\* 0, never faults, ends, and returns exactly its input
C9_EchoReturnsInput ==
    /\ [](EchoRun => /\ status \in NotFaulted
                     /\ status = "returned" => result = <<input_buffer>>)
    /\ (EchoRun ~> (EchoRun /\ status = "returned" /\ result = <<input_buffer>>))

\* C9 witness: the echo program has returned "abc"
C9_Witness ==
    /\ EchoRun
    /\ input_buffer = <<chr(97), chr(98), chr(99)>>
    /\ status = "returned"
    /\ result = <<input_buffer>>

\* a run of `[[[-]]]` on a cell that started from v in [1,255]: after the
\* character of code point v was read, or after v increments
NestedRun ==
    /\ Len(memory) >= 1
    /\ status # "idle"
    /\ \/ /\ code = Nested
          /\ instruction_pointer >= 1
          /\ ord(input_buffer[1]) \in 1..255
       \/ /\ Len(code) - 7 \in 1..255
          /\ code = NestedPlus(Len(code) - 7)
          /\ instruction_pointer >= Len(code) - 7

\* C10: `[[[-]]]` entered on a cell holding v in [1,255] never faults, never
\* moves the data pointer, ends, and leaves the cell at 0
C10_NestedLoopClears ==
    /\ [](NestedRun => /\ status \in NotFaulted
                       /\ pointer = 0
                       /\ status = "returned" => memory[1] = 0)
    /\ (NestedRun ~> (NestedRun /\ status = "returned" /\ memory[1] = 0 /\ pointer = 0))

\* C10 witness: `[[[-]]]` entered on a cell holding 255 has returned
C10_Witness ==
    /\ NestedRun
    /\ code = NestedPlus(255)
    /\ status = "returned"
    /\ memory[1] = 0

\* the text "Hello World!"
HelloText ==
    <<chr(72), chr(101), chr(108), chr(108), chr(111), chr(32),
      chr(87), chr(111), chr(114), chr(108), chr(100), chr(33)>>

\* a run of the Hello World program with empty input on a tape of `size` cells
HelloRunOn(size) ==
    /\ Len(memory) = size
    /\ status # "idle"
    /\ input_buffer = <<>>
    /\ code = HelloWorld

\* a run of the Hello World program with empty input, on the default tape or on
\* the short one
HelloRun == \E size \in HelloTapes : HelloRunOn(size)

\* C11 as stated, on the leading cells of the tape: the Hello World program
\* returns "Hello World!" followed by a newline (code point 10)
C11_HelloWorldNewline ==
    HelloRunOn(HelloTape) /\ status # "running"
        => status = "returned" /\ result = <<HelloText \o <<chr(10)>>>>

\* C11 amended: the Hello World program with empty input on the default tape
\* never faults (the pointer stays on the tape, clear of cell 7 and beyond, and
\* every bracket resolves), writes nothing but the beginning of "Hello World!",
\* ends, and returns exactly these 12 characters, with no newline after them
C11_HelloWorld ==
    /\ [](HelloRun => /\ status \in NotFaulted
                      /\ 0 <= pointer /\ pointer < HelloTape - 1
                      /\ Len(output) <= Len(HelloText)
                      /\ output = SubSeq(HelloText, 1, Len(output))
                      /\ status = "returned" => result = <<HelloText>>)
    /\ (HelloRun ~> (HelloRun /\ status = "returned" /\ result = <<HelloText>>))

\* C11 witness: the Hello World program has returned its 12 characters
C11_Witness ==
    /\ HelloRunOn(HelloTape)
    /\ status = "returned"
    /\ Len(result[1]) = 12
    /\ result[1][12] = chr(33)

\* the positions of a text that hold a character of the alphabet
CommandPositions(text) == {i \in 1..Len(text) : text[i] \in Alphabet}

\* the k-th of these positions, counted from the left
KthCommandPosition(text, k) ==
    CHOOSE i \in CommandPositions(text) :
        Cardinality({j \in CommandPositions(text) : j < i}) = k - 1

\* C12: the loaded instruction sequence holds the characters of the source that
\* are in the alphabet, each once per occurrence and in the order of the source,
\* and loading the loaded sequence again gives the same sequence
C12_LoadIsOrderedFilter ==
    status # "idle" =>
        /\ Len(filtered_code) = Cardinality(CommandPositions(code))
        /\ \A k \in 1..Len(filtered_code) :
               filtered_code[k] = code[KthCommandPosition(code, k)]
        /\ FilterCode(filtered_code) = filtered_code
        /\ FilterCode(FilterCode(code)) = FilterCode(code)

\* C12 witness: a source with comment characters and a repeated command has been
\* loaded
C12_Witness ==
    /\ status = "running"
    /\ code = CommentedEcho
    /\ filtered_code = Echo

\* the call has ended with an exception
Faulted == status \notin {"idle", "running", "returned"}

\* C13: the instruction that faults leaves the tape, the output buffer and the
\* input cursor as they were; once the run has faulted no instruction can be
\* executed and nothing changes any more; and the call has returned no text,
\* whatever the output buffer holds
C13_FaultEndsRun ==
    /\ [](Faulted => result = <<>> /\ ~ENABLED Run)
    /\ [][Faulted' => UNCHANGED <<memory, output, input_index>>]_vars

\* C13 witness: a run has faulted with the too-low fault after it had written a
\* character
C13_Witness ==
    /\ status = TooLow
    /\ Len(output) >= 1
    /\ result = <<>>

\* C14: the interpreter that scans for the matching bracket at every taken jump
\* and the engine that looks it up in the jump table go step for step: after
\* every step they have the same instruction pointer, data pointer, tape, input
\* cursor and output buffer, and they end at the same step, with the same
\* returned text or the same exception
C14_TableEngineAgrees ==
    status # "idle" =>
        /\ ref.instruction_pointer = instruction_pointer
        /\ ref.pointer = pointer
        /\ ref.memory = memory
        /\ ref.input_index = input_index
        /\ ref.output = output
        /\ ref.status = status
        /\ ref.result = result

\* C14 witness: in the unbalanced program `[]+]` both engines have taken the
\* jump of the first bracket and have ended at the last one, which has no partner
C14_Witness ==
    /\ code = <<"[", "]", "+", "]">>
    /\ instruction_pointer = 3
    /\ status = UnmatchedClose
    /\ ref.status = UnmatchedClose
    /\ 0 \in DOMAIN JumpTable(filtered_code)
    /\ 3 \notin DOMAIN JumpTable(filtered_code)

\* the depth counter of the scan to the right of the `[` at position p, after
\* position q: 1, one more for each `[` and one less for each `]` of p+1..q
DepthAhead(text, p, q) ==
    1 + Count(text, "[", p + 2, q + 1) - Count(text, "]", p + 2, q + 1)

\* the positions to the right of p where that counter is 0
ClosesAhead(text, p) == {q \in (p + 1)..(Len(text) - 1) : DepthAhead(text, p, q) = 0}

\* the depth counter of the scan to the left of the `]` at position p, after
\* position q: 1, one more for each `]` and one less for each `[` of q..p-1
DepthBehind(text, p, q) ==
    1 + Count(text, "]", q + 1, p) - Count(text, "[", q + 1, p)

\* the positions to the left of p where that counter is 0
OpensBehind(text, p) == {q \in 0..(p - 1) : DepthBehind(text, p, q) = 0}

Smallest(S) == CHOOSE x \in S : \A y \in S : x <= y

Largest(S) == CHOOSE x \in S : \A y \in S : y <= x

\* C15: a `[` executed on a cell that holds 0 goes on just after the nearest
\* position to its right where the depth counter is 0, and ends the run with the
\* unmatched-bracket fault when there is none; a `]` executed on a cell that
\* does not hold 0 goes on just after the nearest position to its left where
\* the backward counter is 0, and ends the run with the unmatched-bracket fault
\* when there is none
C15_JumpsLandByDepth ==
    /\ [][Fetch("[") /\ HasCell(self) /\ Cell(self) = 0
            => IF ClosesAhead(filtered_code, instruction_pointer) = {}
               THEN status' = UnmatchedOpen
               ELSE /\ status' = "running"
                    /\ instruction_pointer' =
                           Smallest(ClosesAhead(filtered_code, instruction_pointer)) + 1]_vars
    /\ [][Fetch("]") /\ HasCell(self) /\ Cell(self) # 0
            => IF OpensBehind(filtered_code, instruction_pointer) = {}
               THEN status' = UnmatchedClose
               ELSE /\ status' = "running"
                    /\ instruction_pointer' =
                           Largest(OpensBehind(filtered_code, instruction_pointer)) + 1]_vars

\* C15 witness: the outer `[` of `[[]]+` was executed on a cell that holds 0 and
\* the run goes on at the `+`, past the inner loop
C15_Witness ==
    /\ code = <<"[", "[", "]", "]", "+">>
    /\ instruction_pointer = 4
    /\ status = "running"

\* C16: a `[` executed on a cell that does not hold 0, and a `]` executed on a
\* cell that holds 0, does not end the run, moves the instruction pointer on by
\* exactly 1 and leaves the tape, the data pointer, the input cursor and the
\* output buffer as they were, whether the bracket has a partner or not
C16_UntakenBracketFallsThrough ==
    [][(Fetch("[") /\ HasCell(self) /\ Cell(self) # 0)
            \/ (Fetch("]") /\ HasCell(self) /\ Cell(self) = 0)
        => (/\ status' = "running"
            /\ instruction_pointer' = instruction_pointer + 1
            /\ UNCHANGED <<memory, pointer, input_index, output>>)]_vars

\* C16 witness: in `+[` the `[`, which has no partner, was executed on a cell
\* that holds 1 and the run went past it
C16_Witness ==
    /\ code = <<"+", "[">>
    /\ instruction_pointer = 2
    /\ status = "returned"
    /\ memory = <<1>>

\* C17: a step leaves the output buffer as it was or adds one character at its
\* end; it adds one only when it executes `.`, and the code point of that
\* character is the value the current cell holds at that step; every `.` that
\* does not end the run adds one, so the buffer is as long as the number of
\* `.` executed; and the text returned is the buffer
C17_OutputAppendOnly ==
    /\ [][\/ output' = output
          \/ /\ Fetch(".")
             /\ HasCell(self)
             /\ Len(output') = Len(output) + 1
             /\ SubSeq(output', 1, Len(output)) = output
             /\ ord(output'[Len(output')]) = Cell(self)]_vars
    /\ [][Fetch(".") /\ status' = "running" => Len(output') = Len(output) + 1]_vars
    /\ [](status = "returned" => result = <<output>>)

\* C17 witness: the cat program has written the code points 97 and 256 and has
\* returned them
C17_Witness ==
    /\ code = Echo
    /\ status = "returned"
    /\ output = <<chr(97), chr(256)>>
    /\ result = <<output>>

\* the cells other than the current one are as they were
OtherCellsUnchanged ==
    IF HasCell(self)
    THEN memory' = [memory EXCEPT ![Index(memory, pointer)] = memory'[Index(memory, pointer)]]
    ELSE memory' = memory

\* C18: a step of a run changes neither the instruction sequence nor the length
\* of the tape; `>` adds 1 to the data pointer and `<` takes 1 from it, and they
\* change neither tape, input cursor nor output buffer; `+`, `-` and `,` change
\* no cell but the current one, neither data pointer nor output buffer, and
\* `+` and `-` not the input cursor; `.` changes neither tape, data pointer nor
\* input cursor; and a step that does not end the run and is no taken jump adds
\* exactly 1 to the instruction pointer
C18_FrameEffects ==
    /\ [][status = "running"
            => filtered_code' = filtered_code /\ Len(memory') = Len(memory)]_vars
    /\ [][Fetch(">")
            => pointer' = pointer + 1 /\ UNCHANGED <<memory, input_index, output>>]_vars
    /\ [][Fetch("<")
            => pointer' = pointer - 1 /\ UNCHANGED <<memory, input_index, output>>]_vars
    /\ [][Fetch("+") \/ Fetch("-")
            => OtherCellsUnchanged /\ UNCHANGED <<pointer, input_index, output>>]_vars
    /\ [][Fetch(",")
            => OtherCellsUnchanged /\ UNCHANGED <<pointer, output>>]_vars
    /\ [][Fetch(".")
            => UNCHANGED <<memory, pointer, input_index>>]_vars
    /\ [][(\E c \in {">", "<", "+", "-", ".", ","} : Fetch(c)) /\ status' = "running"
            => instruction_pointer' = instruction_pointer + 1]_vars
    /\ [][((Fetch("[") /\ HasCell(self) /\ Cell(self) # 0)
               \/ (Fetch("]") /\ HasCell(self) /\ Cell(self) = 0)) /\ status' = "running"
            => instruction_pointer' = instruction_pointer + 1]_vars

\* C18 witness: `>+,` has moved to cell 1, added 1 to it and read a character
\* into it, and cell 0 is as it was
C18_Witness ==
    /\ code = <<">", "+", ",">>
    /\ status = "returned"
    /\ memory = <<0, 97>>
    /\ pointer = 1
    /\ input_index = 1
    /\ output = <<>>

\* the loop of execute is at an instruction
FetchAny == status = "running" /\ ~AtEnd(self)

\* C19 as stated: every step other than a `]` that jumps back takes the
\* instruction pointer to a greater position
C19_EveryStepAdvances ==
    [][FetchAny /\ ~TakenLoopClose => instruction_pointer' > instruction_pointer]_vars

\* C19 amended: the instruction pointer is a position of the sequence or its
\* length; a step that does not end the run and is no `]` that jumps back takes
\* it to a greater position, a step that ends the run with an exception leaves
\* it where it was; while no `]` has jumped back the run has executed no more
\* instructions than the position it is at, and no more than the sequence has
\* once it ended; the call returns from the position equal to the length, and
\* from there it does nothing else
C19_StepsAdvanceUnlessFaulting ==
    /\ [](0 <= instruction_pointer /\ instruction_pointer <= Len(filtered_code))
    /\ [][FetchAny /\ ~TakenLoopClose /\ status' = "running"
            => instruction_pointer' > instruction_pointer]_vars
    /\ [][FetchAny /\ status' # "running"
            => Faulted' /\ instruction_pointer' = instruction_pointer]_vars
    /\ [](status = "running" /\ ~ref.jumped => ref.steps <= instruction_pointer)
    /\ [](status # "idle" /\ ~ref.jumped => ref.steps <= Len(filtered_code))
    /\ [](status = "returned" => instruction_pointer = Len(filtered_code))
    /\ [](Faulted => instruction_pointer < Len(filtered_code))
    /\ [][status = "running" /\ instruction_pointer = Len(filtered_code)
            => status' = "returned"]_vars

\* C19 witness: `+<+` has ended at its second instruction with the too-low
\* fault, the instruction pointer still at that instruction
C19_Witness ==
    /\ code = <<"+", "<", "+">>
    /\ status = TooLow
    /\ instruction_pointer = 1
    /\ ref = [steps |-> 2, jumped |-> FALSE]

====
